---- MODULE Spec2Model ----
(***************************************************************************)
(* A model of the rate-resolution and conversion core of the currency      *)
(* converter in src/main.cpp: StaticRateProvider (baseRates, customRates,   *)
(* getRate, setCustomRate, registerCurrency) and CurrencyConverter          *)
(* (convert).                                                               *)
(*                                                                          *)
(* A C++ double is modelled as an IEEE 754 binary64 value: sign,           *)
(* 53-bit significand and exponent, or an infinity, or NaN.  operator* and  *)
(* operator/ round to nearest, ties to even, with signed zeros, overflow to *)
(* infinity and gradual underflow.  TLC's integers have 32 bits, so the     *)
(* significands are kept as sequences of 15-bit limbs.                      *)
(*                                                                          *)
(* A thrown std::runtime_error is modelled by its what() message.           *)
(***************************************************************************)
EXTENDS Integers, Sequences, FiniteSets, TLC

VARIABLES
    baseRates,      \* std::map<std::string,double>: code -> rate vs base
    customRates,    \* std::map<std::string,double>: "FROM->TO" -> rate
    pairOverrides,  \* history: ordered pair <<from,to>> -> rate of the last
                    \* successful setCustomRate(from, to, rate) call
    nMutations,     \* number of calls so far that wrote to a table
    last            \* the last call made on the core and its outcome

vars == <<baseRates, customRates, pairOverrides, nMutations, last>>

-----------------------------------------------------------------------------
(* Bounds of the model *)

\* at most this many calls write to a table (successful setCustomRate
\* calls and registerCurrency calls); reads and rejected calls are unbounded
MaxMutations == 2

-----------------------------------------------------------------------------
(* Natural numbers of any size: little-endian sequences of limbs in base W, *)
(* without leading zero limbs; << >> is 0.  They carry the 53-bit           *)
(* significands and the intermediate products and quotients.                *)
(*                                                                          *)
(* TLC passes the arguments of an operator unevaluated and may evaluate     *)
(* them again at every use, so a value that is used more than once is       *)
(* first bound to a variable with Let1.                                     *)

\* F(v), with v evaluated once
Let1(v, F(_)) == CHOOSE r \in {F(x) : x \in {v}} : TRUE

\* the limb base, 2^LimbBits
LimbBits == 15

W == 2^LimbBits

Max(i, j) == IF i >= j THEN i ELSE j

\* x without its leading zero limbs
NNormV(x) ==
    SubSeq(x, 1, IF \E i \in 1..Len(x) : x[i] # 0
                 THEN CHOOSE i \in 1..Len(x) :
                          x[i] # 0 /\ \A j \in (i + 1)..Len(x) : x[j] = 0
                 ELSE 0)

NNorm(x) == Let1(x, NNormV)

RECURSIVE FromNatV(_)
FromNatV(n) ==
    IF n = 0 THEN << >>
    ELSE Let1(n \div W, LAMBDA h : <<n % W>> \o FromNatV(h))

\* the natural number n < 2^31 as limbs
FromNat(n) == Let1(n, FromNatV)

Limb(x, i) == IF i <= Len(x) THEN x[i] ELSE 0

RECURSIVE NCmpAt(_, _, _)
NCmpAt(x, y, i) ==
    IF i = 0 THEN 0
    ELSE IF x[i] < y[i] THEN -1
    ELSE IF x[i] > y[i] THEN 1
    ELSE Let1(i - 1, LAMBDA j : NCmpAt(x, y, j))

NCmpV(x, y) ==
    IF Len(x) < Len(y) THEN -1
    ELSE IF Len(x) > Len(y) THEN 1
    ELSE NCmpAt(x, y, Len(x))

\* -1, 0 or 1 as x < y, x = y or x > y
NCmp(x, y) == Let1(<<x, y>>, LAMBDA a : NCmpV(a[1], a[2]))

RECURSIVE NAddAt(_, _, _, _)
NAddAt(x, y, i, c) ==
    IF i > Len(x) /\ i > Len(y) THEN (IF c = 0 THEN << >> ELSE <<c>>)
    ELSE Let1(<<Limb(x, i) + Limb(y, i) + c, i + 1>>,
              LAMBDA t : <<t[1] % W>> \o NAddAt(x, y, t[2], t[1] \div W))

NAdd(x, y) == Let1(<<x, y>>, LAMBDA a : NAddAt(a[1], a[2], 1, 0))

RECURSIVE NSubAt(_, _, _, _)
NSubAt(x, y, i, b) ==
    IF i > Len(x) THEN << >>
    ELSE Let1(<<x[i] - Limb(y, i) - b, i + 1>>,
              LAMBDA t : IF t[1] < 0 THEN <<t[1] + W>> \o NSubAt(x, y, t[2], 1)
                         ELSE <<t[1]>> \o NSubAt(x, y, t[2], 0))

\* x - y, for x >= y
NSub(x, y) == Let1(<<x, y>>, LAMBDA a : NNorm(NSubAt(a[1], a[2], 1, 0)))

RECURSIVE NMulSmallAt(_, _, _, _)
NMulSmallAt(x, c, i, carry) ==
    IF i > Len(x) THEN (IF carry = 0 THEN << >> ELSE <<carry>>)
    ELSE Let1(<<x[i] * c + carry, i + 1>>,
              LAMBDA t : <<t[1] % W>> \o NMulSmallAt(x, c, t[2], t[1] \div W))

\* x * c, for 0 <= c < W
NMulSmall(x, c) == Let1(<<x, c>>, LAMBDA a : NNorm(NMulSmallAt(a[1], a[2], 1, 0)))

\* x * W^q
NShlLimbs(x, q) ==
    Let1(x, LAMBDA v : IF v = << >> THEN v ELSE [i \in 1..q |-> 0] \o v)

RECURSIVE NMulAt(_, _, _)
NMulAt(x, y, j) ==
    IF j > Len(y) THEN << >>
    ELSE Let1(j + 1, LAMBDA j1 :
              NAdd(NMulSmall(x, y[j]), NShlLimbs(NMulAt(x, y, j1), 1)))

NMul(x, y) == Let1(<<x, y>>, LAMBDA a : NMulAt(a[1], a[2], 1))

RECURSIVE NDivSmallAt(_, _, _, _)
NDivSmallAt(x, c, i, r) ==
    IF i = 0 THEN << >>
    ELSE Let1(<<r * W + x[i], i - 1>>,
              LAMBDA t : NDivSmallAt(x, c, t[2], t[1] % c) \o <<t[1] \div c>>)

\* x \div c, for 0 < c < W
NDivSmall(x, c) ==
    Let1(<<x, c>>, LAMBDA a : NNorm(NDivSmallAt(a[1], a[2], Len(a[1]), 0)))

\* x * 2^k and x \div 2^k
NShl(x, k) == NShlLimbs(NMulSmall(x, 2^(k % LimbBits)), k \div LimbBits)

NShr(x, k) ==
    Let1(x, LAMBDA v :
         IF k \div LimbBits >= Len(v) THEN << >>
         ELSE NDivSmall(SubSeq(v, (k \div LimbBits) + 1, Len(v)), 2^(k % LimbBits)))

\* bit i of x (bit 0 is the lowest)
NBit(x, i) == (Limb(x, (i \div LimbBits) + 1) \div 2^(i % LimbBits)) % 2

\* the k lowest bits of x are all 0
NLowZero(x, k) == Let1(x, LAMBDA v : NShl(NShr(v, k), k) = v)

RECURSIVE BitLenSmall(_)
BitLenSmall(n) ==
    IF n = 0 THEN 0 ELSE Let1(n \div 2, LAMBDA h : 1 + BitLenSmall(h))

NBitLen(x) ==
    Let1(x, LAMBDA v :
         IF v = << >> THEN 0
         ELSE LimbBits * (Len(v) - 1) + BitLenSmall(v[Len(v)]))

\* one step of binary long division by d: from the quotient and remainder
\* qr = <<q, r>> with r < d to those of 2r
DivStep(qr, d) ==
    Let1(NShl(qr[2], 1), LAMBDA r2 :
         IF NCmp(r2, d) >= 0
         THEN <<NAdd(NShl(qr[1], 1), <<1>>), NSub(r2, d)>>
         ELSE <<NShl(qr[1], 1), r2>>)

\* k > 0 steps, made as two halves to keep the recursion shallow
RECURSIVE DivSteps(_, _, _)
DivSteps(qr, d, k) ==
    IF k = 1 THEN DivStep(qr, d)
    ELSE Let1(<<DivSteps(qr, d, k \div 2), k - (k \div 2)>>,
              LAMBDA t : DivSteps(t[1], d, t[2]))

-----------------------------------------------------------------------------
(* Doubles: IEEE 754 binary64 with round-to-nearest-even, as operator* and  *)
(* operator/ compute on the program's doubles.  A finite double is          *)
(* (-1)^s * m * 2^e with m < 2^53; m has exactly 53 bits unless the value   *)
(* is zero or subnormal (e = MinExp).                                       *)

\* bits of the significand
MantBits == 53

\* exponent of the lowest significand bit: of a subnormal, of the largest double
MinExp == -1074

MaxExp == 971

\* quotient bits computed beyond the first by Div
DivBits == 56

Fin(s, m, e) == [k |-> "fin", s |-> s, m |-> m, e |-> e]

FZero(s) == Fin(s, << >>, 0)

Inf(s) == [k |-> "inf", s |-> s, m |-> << >>, e |-> 0]

NaN == [k |-> "nan", s |-> 0, m |-> << >>, e |-> 0]

IsNaN(a) == a.k = "nan"

IsZero(a) == a.k = "fin" /\ a.m = << >>

IsFinite(a) == a.k = "fin"

Xor(s, t) == (s + t) % 2

Pack(s, m, e) ==
    IF m = << >> THEN FZero(s)
    ELSE IF e > MaxExp THEN Inf(s)
    ELSE Fin(s, m, e)

\* m1 * 2^eLsb, where a carry may have given m1 one bit too many
Renorm(s, m1, eLsb) ==
    IF NBitLen(m1) > MantBits THEN Pack(s, NShr(m1, 1), eLsb + 1)
    ELSE Pack(s, m1, eLsb)

\* N * 2^e with the drop > 0 lowest bits of N rounded away
RoundDrop(s, N, e, drop, sticky) ==
    Let1(NShr(N, drop), LAMBDA m0 :
         LET half == NBit(N, drop - 1) = 1
             rest == sticky \/ ~NLowZero(N, drop - 1)
             odd  == NBit(m0, 0) = 1
         IN  IF half /\ (rest \/ odd)
             THEN Let1(NAdd(m0, <<1>>), LAMBDA m1 : Renorm(s, m1, e + drop))
             ELSE Pack(s, m0, e + drop))

\* the double nearest to (-1)^s * (N + f) * 2^e, ties to even, where
\* 0 <= f < 1 and sticky tells f # 0
RoundPack(s, N, e, sticky) ==
    Let1(<<N, e>>, LAMBDA a :
         IF a[1] = << >> THEN FZero(s)
         ELSE Let1(Max(a[2] + NBitLen(a[1]) - MantBits, MinExp) - a[2], LAMBDA drop :
                   IF drop <= 0 THEN Pack(s, NShl(a[1], -drop), a[2] + drop)
                   ELSE RoundDrop(s, a[1], a[2], drop, sticky)))

\* the double of the integer i
FromInt(i) == RoundPack(IF i < 0 THEN 1 ELSE 0, FromNat(IF i < 0 THEN -i ELSE i), 0, FALSE)

MulV(a, b) ==
    IF IsNaN(a) \/ IsNaN(b) THEN NaN
    ELSE IF (a.k = "inf" /\ IsZero(b)) \/ (IsZero(a) /\ b.k = "inf") THEN NaN
    ELSE IF a.k = "inf" \/ b.k = "inf" THEN Inf(Xor(a.s, b.s))
    ELSE RoundPack(Xor(a.s, b.s), NMul(a.m, b.m), a.e + b.e, FALSE)

\* a * b
Mul(a, b) == Let1(<<a, b>>, LAMBDA p : MulV(p[1], p[2]))

\* the quotient of the significands n and d of equal bit length, times 2^e
DivAligned(s, n, d, e) ==
    Let1(DivSteps(IF NCmp(n, d) >= 0 THEN <<<<1>>, NSub(n, d)>> ELSE <<<< >>, n>>,
                  d, DivBits),
         LAMBDA qr : RoundPack(s, qr[1], e - DivBits, qr[2] # << >>))

DivV(a, b) ==
    IF IsNaN(a) \/ IsNaN(b) THEN NaN
    ELSE IF (a.k = "inf" /\ b.k = "inf") \/ (IsZero(a) /\ IsZero(b)) THEN NaN
    ELSE IF a.k = "inf" \/ IsZero(b) THEN Inf(Xor(a.s, b.s))
    ELSE IF b.k = "inf" \/ IsZero(a) THEN FZero(Xor(a.s, b.s))
    ELSE Let1(<<Max(NBitLen(b.m) - NBitLen(a.m), 0), Max(NBitLen(a.m) - NBitLen(b.m), 0)>>,
              LAMBDA sh :
              Let1(<<NShl(a.m, sh[1]), NShl(b.m, sh[2])>>, LAMBDA nd :
                   DivAligned(Xor(a.s, b.s), nd[1], nd[2], a.e - b.e - sh[1] + sh[2])))

\* a / b
Div(a, b) == Let1(<<a, b>>, LAMBDA p : DivV(p[1], p[2]))

\* the double a decimal literal n/d of the source denotes (d a power of ten):
\* the correctly rounded quotient of two integers that doubles hold exactly
D(n, d) == Div(FromInt(n), FromInt(d))

\* a < 0.0 and a <= 0.0 (false for NaN; -0.0 is not below 0.0)
LtZero(a) == ~IsNaN(a) /\ ~IsZero(a) /\ a.s = 1

LeZero(a) == ~IsNaN(a) /\ (IsZero(a) \/ a.s = 1)

\* a > 0.0
GtZero(a) == ~IsNaN(a) /\ ~IsZero(a) /\ a.s = 0

\* a == b as C++ compares doubles (NaN equals nothing, -0.0 equals 0.0)
DEq(a, b) == ~IsNaN(a) /\ ~IsNaN(b) /\ ((IsZero(a) /\ IsZero(b)) \/ a = b)

\* The double literals of the source are written out below as Fin(s, m, e),
\* that is (-1)^s * m * 2^e; LiteralsRounded states their decimal values.

\* 1.0 = 0x1p+0
One == Fin(0, <<0, 0, 0, 128>>, -52)

\* 0.0
Zero == Fin(0, << >>, 0)

-----------------------------------------------------------------------------
(* Outcomes of a call: a returned value, or a thrown exception *)

Ok(v) == [ok |-> TRUE, val |-> v, err |-> ""]

Throw(msg) == [ok |-> FALSE, val |-> NaN, err |-> msg]

ErrUnsupported == "Unsupported currency code"

ErrRate == "Rate must be positive"

ErrAmount == "Amount cannot be negative"

-----------------------------------------------------------------------------
(* StaticRateProvider *)

baseCurrencyCode == "USD"

makeKey(from, to) == from \o "->" \o to

\* the constructor's table: the base at 1.0, then 0.92, 83.10, 0.79, 141.50,
\* 1.47 and 1.34
SeedRates ==
    [c \in {baseCurrencyCode, "EUR", "INR", "GBP", "JPY", "AUD", "CAD"} |->
        CASE c = "EUR" -> Fin(0, <<15729, 11796, 17039, 235>>, -53)
          [] c = "INR" -> Fin(0, <<26214, 19660, 6553, 166>>, -46)
          [] c = "GBP" -> Fin(0, <<24904, 10485, 7864, 202>>, -53)
          [] c = "JPY" -> Fin(0, <<0, 0, 16384, 141>>, -45)
          [] c = "AUD" -> Fin(0, <<27525, 28835, 5242, 188>>, -52)
          [] c = "CAD" -> Fin(0, <<15729, 11796, 17039, 171>>, -52)
          [] OTHER     -> One]

\* Inputs of the calls

\* currency codes given to the calls: the base, a seeded code, and a code the
\* seeded table does not hold and that contains the characters "->"
Codes == {"USD", "EUR", "USD->USD"}

\* rates given to setCustomRate and registerCurrency: -5.0, 0.0, 0.95, 2.0
Rates ==
    { Fin(1, <<0, 0, 0, 160>>, -50),
      Zero,
      Fin(0, <<26214, 19660, 6553, 243>>, -53),
      Fin(0, <<0, 0, 0, 128>>, -51) }

\* amounts given to convert: -1.0, 0.0, 100.0
Amounts ==
    { Fin(1, <<0, 0, 0, 128>>, -52),
      Zero,
      Fin(0, <<0, 0, 0, 200>>, -46) }

\* the doubles written out above are those of the decimal literals
LiteralsRounded ==
    /\ One = FromInt(1) /\ Zero = FromInt(0)
    /\ SeedRates["USD"] = D(10, 10)
    /\ SeedRates["EUR"] = D(92, 100)
    /\ SeedRates["INR"] = D(8310, 100)
    /\ SeedRates["GBP"] = D(79, 100)
    /\ SeedRates["JPY"] = D(14150, 100)
    /\ SeedRates["AUD"] = D(147, 100)
    /\ SeedRates["CAD"] = D(134, 100)
    /\ Rates = {D(-50, 10), D(0, 10), D(95, 100), D(20, 10)}
    /\ Amounts = {D(-10, 10), D(0, 10), D(1000, 10)}

\* the rates the rate table can hold, and the rates getRate can return
TableRates == {SeedRates[c] : c \in DOMAIN SeedRates} \cup Rates

\* Div and Mul tabulated on the operands the calls below can meet (merging
\* with the empty function makes TLC build each table once, as a whole)
DivTable == [p \in TableRates \X TableRates |-> Div(p[1], p[2])] @@ << >>

ReturnedRates == {DivTable[p] : p \in DOMAIN DivTable} \cup Rates \cup {One}

MulTable == [p \in Amounts \X ReturnedRates |-> Mul(p[1], p[2])] @@ << >>

\* a / b and a * b: the tabulated value where there is one
Quot(a, b) == IF <<a, b>> \in DOMAIN DivTable THEN DivTable[<<a, b>>] ELSE Div(a, b)

Prod(a, b) == IF <<a, b>> \in DOMAIN MulTable THEN MulTable[<<a, b>>] ELSE Mul(a, b)

\* m[k] = v of a std::map: insert or overwrite
Put(m, k, v) == [x \in DOMAIN m \cup {k} |-> IF x = k THEN v ELSE m[x]]

\* getRate with the override lookup made before the from == to test
getRate_OverrideFirst(cr, br, from, to) ==
    IF makeKey(from, to) \in DOMAIN cr THEN Ok(cr[makeKey(from, to)])
    ELSE IF from = to THEN Ok(One)
    ELSE IF from \notin DOMAIN br \/ to \notin DOMAIN br THEN Throw(ErrUnsupported)
    ELSE Ok(Quot(br[to], br[from]))

\* getRate on the tables cr (customRates) and br (baseRates)
getRate(cr, br, from, to) ==
    IF from = to THEN Ok(One)
    ELSE IF makeKey(from, to) \in DOMAIN cr THEN Ok(cr[makeKey(from, to)])
    ELSE IF from \notin DOMAIN br \/ to \notin DOMAIN br THEN Throw(ErrUnsupported)
    ELSE Ok(Quot(br[to], br[from]))

\* setCustomRate with the table written before the rate is validated
setCustomRate_StoreFirst(cr, from, to, rate) ==
    [res |-> IF LeZero(rate) THEN Throw(ErrRate) ELSE Ok(Zero),
     cr  |-> Put(cr, makeKey(from, to), rate)]

\* setCustomRate: the outcome and the customRates table it leaves
setCustomRate(cr, from, to, rate) ==
    IF LeZero(rate) THEN [res |-> Throw(ErrRate), cr |-> cr]
    ELSE [res |-> Ok(Zero), cr |-> Put(cr, makeKey(from, to), rate)]

\* registerCurrency: the baseRates table it leaves
registerCurrency(br, code, rateVsBase) == Put(br, code, rateVsBase)

\* getSupportedCodes
getSupportedCodes(br) == DOMAIN br

-----------------------------------------------------------------------------
(* CurrencyConverter *)

\* convert with the rate looked up before the amount is validated
convert_RateFirst(cr, br, from, to, amount) ==
    LET r == getRate(cr, br, from, to)
    IN  IF ~r.ok THEN r
        ELSE IF LtZero(amount) THEN Throw(ErrAmount)
        ELSE Ok(Prod(amount, r.val))

\* convert: the amount check, then the provider's rate, then the product
convert(cr, br, from, to, amount) ==
    IF LtZero(amount) THEN Throw(ErrAmount)
    ELSE LET r == getRate(cr, br, from, to)
         IN  IF r.ok THEN Ok(Prod(amount, r.val)) ELSE r

-----------------------------------------------------------------------------
(* Calls *)

Call(op, from, to, x, res) ==
    [op |-> op, from |-> from, to |-> to, x |-> x, res |-> res]

-----------------------------------------------------------------------------
(* The state machine *)

Init ==
    /\ baseRates = SeedRates
    /\ customRates = << >>
    /\ pairOverrides = << >>
    /\ nMutations = 0
    /\ last = Call("init", "", "", Zero, Ok(Zero))

GetRate(from, to) ==
    /\ last' = Call("getRate", from, to, Zero,
                    getRate(customRates, baseRates, from, to))
    /\ UNCHANGED <<baseRates, customRates, pairOverrides, nMutations>>

SetCustomRate(from, to, rate) ==
    LET r == setCustomRate(customRates, from, to, rate)
    IN  /\ r.res.ok => nMutations < MaxMutations
        /\ nMutations' = IF r.res.ok THEN nMutations + 1 ELSE nMutations
        /\ customRates' = r.cr
        /\ pairOverrides' = IF r.res.ok
                            THEN Put(pairOverrides, <<from, to>>, rate)
                            ELSE pairOverrides
        /\ last' = Call("setCustomRate", from, to, rate, r.res)
        /\ UNCHANGED baseRates

RegisterCurrency(code, rate) ==
    /\ nMutations < MaxMutations
    /\ baseRates' = registerCurrency(baseRates, code, rate)
    /\ nMutations' = nMutations + 1
    /\ last' = Call("registerCurrency", code, "", rate, Ok(Zero))
    /\ UNCHANGED <<customRates, pairOverrides>>

Convert(from, to, amount) ==
    /\ last' = Call("convert", from, to, amount,
                    convert(customRates, baseRates, from, to, amount))
    /\ UNCHANGED <<baseRates, customRates, pairOverrides, nMutations>>

Next ==
    \/ \E from \in Codes, to \in Codes : GetRate(from, to)
    \/ \E from \in Codes, to \in Codes, rate \in Rates : SetCustomRate(from, to, rate)
    \/ \E code \in Codes, rate \in Rates : RegisterCurrency(code, rate)
    \/ \E from \in Codes, to \in Codes, amount \in Amounts : Convert(from, to, amount)

Spec == Init /\ [][Next]_vars

-----------------------------------------------------------------------------
(* Properties *)

\* every code a call can name or the rate table holds
AllCodes == Codes \cup DOMAIN baseRates

\* getRate and convert in the current state
RateNow(from, to) == getRate(customRates, baseRates, from, to)

ConvertNow(from, to, amount) == convert(customRates, baseRates, from, to, amount)

\* C1 - Identity: in every reachable state getRate(X, X) returns exactly 1.0
\* for every code X, also when X is not in the rate table and when an
\* override for (X, X) holds another value.
C1_Identity ==
    /\ \A X \in AllCodes : RateNow(X, X) = Ok(One)
    /\ (last.op = "getRate" /\ last.from = last.to) => last.res = Ok(One)

\* getRate(X, X) was just called for a code X the rate table does not hold,
\* while an override other than 1.0 is stored for (X, X)
C1_Witness ==
    /\ last.op = "getRate" /\ last.from = last.to
    /\ last.from \notin DOMAIN baseRates
    /\ <<last.from, last.from>> \in DOMAIN pairOverrides
    /\ makeKey(last.from, last.from) \in DOMAIN customRates
    /\ customRates[makeKey(last.from, last.from)] # One

\* C2 - Override precedence: for distinct A and B, once setCustomRate(A, B, r)
\* has succeeded, getRate(A, B) returns exactly r until another
\* setCustomRate for the pair (A, B), whatever the rate table holds.
C2_OverridePrecedence ==
    \A p \in DOMAIN pairOverrides :
        p[1] # p[2] => RateNow(p[1], p[2]) = Ok(pairOverrides[p])

\* C3 - Invalid rate rejection: setCustomRate(A, B, rate) with rate <= 0
\* throws "Rate must be positive" and leaves both tables unchanged, so
\* getRate(A, B) answers after the call as it did before it.
C3_InvalidRateRejected ==
    [][(last'.op = "setCustomRate" /\ LeZero(last'.x)) =>
          /\ last'.res = Throw(ErrRate)
          /\ customRates' = customRates
          /\ baseRates' = baseRates
          /\ getRate(customRates', baseRates', last'.from, last'.to)
                = RateNow(last'.from, last'.to)]_vars

\* a setCustomRate with rate <= 0 was just rejected for a pair of distinct
\* codes that holds a valid override, which getRate still returns
C3_Witness ==
    /\ last.op = "setCustomRate" /\ LeZero(last.x) /\ ~last.res.ok
    /\ last.from # last.to
    /\ <<last.from, last.to>> \in DOMAIN pairOverrides
    /\ RateNow(last.from, last.to) = Ok(pairOverrides[<<last.from, last.to>>])

\* C4 - Unsupported-code failure: for from # to, when no override was set
\* for the exact ordered pair (from, to) and from or to is absent from the
\* rate table, getRate(from, to) throws "Unsupported currency code";
\* overrides of other pairs do not make it succeed.
C4_UnsupportedFails ==
    \A from \in AllCodes, to \in AllCodes :
        ( /\ from # to
          /\ <<from, to>> \notin DOMAIN pairOverrides
          /\ (from \notin DOMAIN baseRates \/ to \notin DOMAIN baseRates) )
        => RateNow(from, to) = Throw(ErrUnsupported)

\* C5 - Negative amount: convert with amount < 0 throws "Amount cannot be
\* negative" for any codes (equal, unsupported or overridden): the amount
\* is checked before the rate is looked up.
C5_NegativeAmount ==
    /\ \A from \in AllCodes, to \in AllCodes, amount \in Amounts :
          LtZero(amount) => ConvertNow(from, to, amount) = Throw(ErrAmount)
    /\ (last.op = "convert" /\ LtZero(last.x)) => last.res = Throw(ErrAmount)

\* convert was just called with a negative amount for a pair whose rate
\* lookup throws "Unsupported currency code"
C5_Witness ==
    /\ last.op = "convert" /\ LtZero(last.x)
    /\ RateNow(last.from, last.to) = Throw(ErrUnsupported)
    /\ last.res.err = ErrAmount

\* C6 - Conversion result: for amount >= 0, convert succeeds exactly when
\* getRate succeeds and then returns amount * getRate(from, to), so that
\* amount 0 yields 0 and from = to yields amount; when getRate throws,
\* convert throws the same "Unsupported currency code".
C6_ConversionResult ==
    (last.op = "convert" /\ ~LtZero(last.x)) =>
        LET r == RateNow(last.from, last.to)
        IN  /\ last.res.ok = r.ok
            /\ r.ok => /\ last.res.val = Mul(last.x, r.val)
                       /\ last.x = Zero => DEq(last.res.val, Zero)
                       /\ last.from = last.to => DEq(last.res.val, last.x)
            /\ ~r.ok => last.res = Throw(ErrUnsupported)

\* |a - b| <= 2^-30 * |b| (a relative tolerance just under 1e-9), for doubles
\* a and b; false when either is NaN or infinite
CloseV(a, b) ==
    /\ IsFinite(a) /\ IsFinite(b)
    /\ \/ IsZero(a) /\ IsZero(b)
       \/ /\ ~IsZero(a) /\ ~IsZero(b) /\ a.s = b.s
          /\ a.e - b.e \in {-1, 0, 1}
          /\ \E e0 \in {IF a.e < b.e THEN a.e ELSE b.e} :
             \E x \in {NShl(a.m, a.e - e0)}, y \in {NShl(b.m, b.e - e0)} :
                NCmp(NShl(IF NCmp(x, y) >= 0 THEN NSub(x, y) ELSE NSub(y, x), 30), y) <= 0

Close(a, b) == \E p \in {<<a, b>>} : CloseV(p[1], p[2])

\* C7 - Triangulation consistency: with no overrides set, for all codes A,
\* B, C of the rate table, getRate(A, B) * getRate(B, C) equals
\* getRate(A, C) within the relative tolerance 1e-9, after any sequence of
\* registerCurrency calls.
C7_Triangulation ==
    customRates = << >> =>
        \A A \in DOMAIN baseRates, B \in DOMAIN baseRates, C \in DOMAIN baseRates :
            /\ RateNow(A, B).ok /\ RateNow(B, C).ok /\ RateNow(A, C).ok
            /\ Close(Mul(RateNow(A, B).val, RateNow(B, C).val), RateNow(A, C).val)

\* C8 - Base pinned at 1.0: in every reachable state the rate table holds
\* the base currency code with the value exactly 1.0.
C8_BasePinned ==
    /\ baseCurrencyCode \in DOMAIN baseRates
    /\ baseRates[baseCurrencyCode] = One

\* C9 - Positive rates: in every reachable state every value of the rate
\* table and every value of the override table is strictly positive.
C9_PositiveRates ==
    /\ \A c \in DOMAIN baseRates : IsFinite(baseRates[c]) /\ GtZero(baseRates[c])
    /\ \A k \in DOMAIN customRates : GtZero(customRates[k])

\* C10 - Override isolation: a successful setCustomRate(A, B, r) changes the
\* outcome of getRate for the pair (A, B) only; every other ordered pair of
\* codes, the reversed pair and codes containing "->" included, gets the
\* same rate or the same failure as before the call.
C10_OverrideIsolation ==
    [][(last'.op = "setCustomRate" /\ last'.res.ok) =>
          \A C \in AllCodes, E \in AllCodes :
              <<C, E>> # <<last'.from, last'.to>> =>
                  getRate(customRates', baseRates', C, E) = RateNow(C, E)]_vars

====
